---- MODULE Spec2Model ----
(***************************************************************************)
(* The room registry contract of contract/src/lib.rs: the Room Store      *)
(* (rooms_by_id), the Owner Index (rooms_per_owner) and the three exposed  *)
(* methods add_room_to_owner, exists and get_rooms_registered_by_owner.    *)
(* Strings are TLA+ strings; format!("{}{}", a, b) is their concatenation. *)
(***************************************************************************)
EXTENDS Naturals, Sequences, FiniteSets, TLC

\* Number of add_room_to_owner calls explored.
MaxCalls == 3

\* Signer / owner account ids: both are valid NEAR account ids, one a prefix
\* of the other.
AccountIds == {"ab", "abc"}

\* Room names (unconstrained strings).
Names == {"x", "cx", "y"}

\* The remaining arguments of add_room_to_owner, drawn as whole bundles.
Inputs ==
    { [image |-> "i1", beds |-> 0, description |-> "d1", location |-> "l1", price |-> 100],
      [image |-> "i2", beds |-> 2, description |-> "d2", location |-> "l2", price |-> 200] }

NoInput == [image |-> "", beds |-> 0, description |-> "", location |-> "", price |-> 0]

VARIABLES
    rooms_per_owner,   \* LookupMap<AccountId, Vec<RoomId>>
    rooms_by_id,       \* HashMap<RoomId, Room>
    calls,             \* history: the add_room_to_owner calls executed so far
    last               \* history: the last call and what it returned

vars == <<rooms_per_owner, rooms_by_id, calls, last>>

\* enum UsageStatus
Available == [variant |-> "Available"]
Stay(check_in_date) == [variant |-> "Stay", check_in_date |-> check_in_date]

\* A derivation of the identifier that leaves the owner out.
format_name_only(owner_id, name) == name

\* format!("{}{}", owner_id, name)
format(owner_id, name) == owner_id \o name

\* A Room literal that starts out booked.
new_room_stay(owner_id, name, in) ==
    [ owner_id    |-> owner_id,
      name        |-> name,
      image       |-> in.image,
      beds        |-> in.beds,
      description |-> in.description,
      location    |-> in.location,
      price       |-> in.price,
      status      |-> Stay("2022-01-01"),
      booked_info |-> [d \in {} |-> ""] ]

\* The Room literal built by add_room_to_owner.
new_room(owner_id, name, in) ==
    [ owner_id    |-> owner_id,
      name        |-> name,
      image       |-> in.image,
      beds        |-> in.beds,
      description |-> in.description,
      location    |-> in.location,
      price       |-> in.price,
      status      |-> Available,
      booked_info |-> [d \in {} |-> ""] ]

\* A registration that forgets the Room Store write.
rooms_by_id_no_insert(room_id, room) == rooms_by_id

\* self.rooms_by_id.insert(room_id, new_room): the Room Store afterwards.
rooms_by_id_insert(room_id, room) ==
    [id \in DOMAIN rooms_by_id \cup {room_id} |->
        IF id = room_id THEN room ELSE rooms_by_id[id]]

\* An Owner Index update that skips an identifier the owner already lists.
rooms_per_owner_insert_once(owner_id, room_id) ==
    LET old == IF owner_id \in DOMAIN rooms_per_owner
               THEN rooms_per_owner[owner_id] ELSE <<>>
        rooms == IF \E i \in 1..Len(old) : old[i] = room_id
                 THEN old ELSE Append(old, room_id)
    IN  [o \in DOMAIN rooms_per_owner \cup {owner_id} |->
            IF o = owner_id THEN rooms ELSE rooms_per_owner[o]]

\* match self.rooms_per_owner.get(&owner_id) { Some => push, None => vec![..] }:
\* the Owner Index afterwards.
rooms_per_owner_insert(owner_id, room_id) ==
    LET rooms == IF owner_id \in DOMAIN rooms_per_owner
                 THEN Append(rooms_per_owner[owner_id], room_id)
                 ELSE <<room_id>>
    IN  [o \in DOMAIN rooms_per_owner \cup {owner_id} |->
            IF o = owner_id THEN rooms ELSE rooms_per_owner[o]]

\* A lookup that builds the key with its two parts swapped.
exists_ret_swapped(owner_id, room_name) ==
    format(room_name, owner_id) \in DOMAIN rooms_by_id

\* The value exists returns in the current state.
exists_ret(owner_id, room_name) ==
    format(owner_id, room_name) \in DOMAIN rooms_by_id

\* The match on room.status that copies the variant.
status_clone(status) ==
    IF status.variant = "Available"
    THEN Available
    ELSE Stay(status.check_in_date)

\* The RegisteredRoom literal built from a Room.
registered_room(room) ==
    [ name        |-> room.name,
      beds        |-> room.beds,
      image       |-> room.image,
      description |-> room.description,
      location    |-> room.location,
      price       |-> room.price,
      status      |-> status_clone(room.status) ]

\* What get_rooms_registered_by_owner returns in the current state:
\* ok = FALSE is the panic of expect("ERR_NOT_FOUND_ROOM").
get_rooms_ret(owner_id) ==
    IF owner_id \notin DOMAIN rooms_per_owner
    THEN [ok |-> TRUE, rooms |-> <<>>]
    ELSE LET rooms == rooms_per_owner[owner_id] IN
         IF \E i \in 1..Len(rooms) : rooms[i] \notin DOMAIN rooms_by_id
         THEN [ok |-> FALSE, rooms |-> <<>>]
         ELSE [ok |-> TRUE,
               rooms |-> [i \in 1..Len(rooms) |-> registered_room(rooms_by_id[rooms[i]])]]

Init ==
    /\ rooms_per_owner = [o \in {} |-> <<>>]
    /\ rooms_by_id = [id \in {} |-> NoInput]
    /\ calls = <<>>
    /\ last = [op |-> "init", owner_id |-> "", name |-> "", in |-> NoInput,
               ret_bool |-> FALSE, ret_ok |-> TRUE, ret_rooms |-> <<>>]

\* pub fn add_room_to_owner, signed by signer.
add_room_to_owner(signer, name, in) ==
    /\ Len(calls) < MaxCalls
    /\ LET owner_id == signer
           room_id == format(owner_id, name)
       IN  /\ rooms_by_id' = rooms_by_id_insert(room_id, new_room(owner_id, name, in))
           /\ rooms_per_owner' = rooms_per_owner_insert(owner_id, room_id)
    /\ calls' = Append(calls, [owner_id |-> signer, name |-> name, in |-> in])
    /\ last' = [op |-> "add_room_to_owner", owner_id |-> signer, name |-> name, in |-> in,
                ret_bool |-> FALSE, ret_ok |-> TRUE, ret_rooms |-> <<>>]

\* pub fn exists(&self, owner_id, room_name)
exists(owner_id, room_name) ==
    /\ last' = [op |-> "exists", owner_id |-> owner_id, name |-> room_name, in |-> NoInput,
                ret_bool |-> exists_ret(owner_id, room_name),
                ret_ok |-> TRUE, ret_rooms |-> <<>>]
    /\ UNCHANGED <<rooms_per_owner, rooms_by_id, calls>>

\* A listing that creates the missing Owner Index entry while reading.
get_rooms_or_insert(owner_id) ==
    /\ last' = [op |-> "get_rooms_registered_by_owner", owner_id |-> owner_id, name |-> "",
                in |-> NoInput, ret_bool |-> FALSE,
                ret_ok |-> get_rooms_ret(owner_id).ok,
                ret_rooms |-> get_rooms_ret(owner_id).rooms]
    /\ rooms_per_owner' =
           [o \in DOMAIN rooms_per_owner \cup {owner_id} |->
               IF o \in DOMAIN rooms_per_owner THEN rooms_per_owner[o] ELSE <<>>]
    /\ UNCHANGED <<rooms_by_id, calls>>

\* pub fn get_rooms_registered_by_owner(&self, owner_id)
get_rooms_registered_by_owner(owner_id) ==
    /\ last' = [op |-> "get_rooms_registered_by_owner", owner_id |-> owner_id, name |-> "",
                in |-> NoInput, ret_bool |-> FALSE,
                ret_ok |-> get_rooms_ret(owner_id).ok,
                ret_rooms |-> get_rooms_ret(owner_id).rooms]
    /\ UNCHANGED <<rooms_per_owner, rooms_by_id, calls>>

Next ==
    \/ \E signer \in AccountIds, name \in Names, in \in Inputs :
           add_room_to_owner(signer, name, in)
    \/ \E owner_id \in AccountIds, room_name \in Names : exists(owner_id, room_name)
    \/ \E owner_id \in AccountIds : get_rooms_registered_by_owner(owner_id)

Spec == Init /\ [][Next]_vars

(***************************************************************************)
(* Vocabulary of the properties.                                           *)
(***************************************************************************)

\* The positions of the history at which owner o registered name n.
Registrations(o, n) ==
    {i \in 1..Len(calls) : calls[i].owner_id = o /\ calls[i].name = n}

Registered(o, n) == Registrations(o, n) # {}

\* The arguments of o's latest registration of n.
LatestInput(o, n) ==
    calls[CHOOSE i \in Registrations(o, n) : \A j \in Registrations(o, n) : j <= i].in

\* The registrations of owner o, in the order they were executed.
CallsOf(o) == SelectSeq(calls, LAMBDA c : c.owner_id = o)

\* The listing entry a registration of name n with arguments in should show.
Projection(n, in) ==
    [ name        |-> n,
      beds        |-> in.beds,
      image       |-> in.image,
      description |-> in.description,
      location    |-> in.location,
      price       |-> in.price,
      status      |-> Available ]

IsAdd == last.op = "add_room_to_owner"
IsExists == last.op = "exists"
IsGet == last.op = "get_rooms_registered_by_owner"

(***************************************************************************)
(* C1: once owner O has executed add_room_to_owner with name N,            *)
(* exists(O, N) is true in that state and in every later state, whatever   *)
(* calls follow; a call of exists(O, N) therefore returns true.            *)
(***************************************************************************)
C1_ExistsAfterAdd ==
    /\ \A i \in 1..Len(calls) : exists_ret(calls[i].owner_id, calls[i].name)
    /\ (IsExists /\ Registered(last.owner_id, last.name)) => last.ret_bool

\* exists is called on the first registered pair after a later registration.
C1_Witness ==
    /\ IsExists
    /\ Len(calls) >= 2
    /\ calls[1].owner_id = last.owner_id /\ calls[1].name = last.name
    /\ calls[2].name # last.name
    /\ last.ret_bool

(***************************************************************************)
(* C2: for every owner O and name N that O never registered,               *)
(* exists(O, N) is false, whatever other pairs have been registered.       *)
(***************************************************************************)
C2_NeverRegisteredNotExists ==
    /\ \A o \in AccountIds, n \in Names : ~Registered(o, n) => ~exists_ret(o, n)
    /\ (IsExists /\ ~Registered(last.owner_id, last.name)) => ~last.ret_bool

(***************************************************************************)
(* C3: if the names owner O registered are pairwise distinct, the listing  *)
(* of O has one entry per registration, in registration order, each with   *)
(* the name and field values of that registration and status Available    *)
(* (the empty sequence when O registered nothing).                         *)
(***************************************************************************)
C3_ListingInRegistrationOrder ==
    \A o \in AccountIds :
        LET cs == CallsOf(o)
            listing == get_rooms_ret(o)
        IN  (\A i, j \in 1..Len(cs) : i # j => cs[i].name # cs[j].name) =>
                /\ listing.ok
                /\ Len(listing.rooms) = Len(cs)
                /\ \A i \in 1..Len(cs) :
                       listing.rooms[i] = Projection(cs[i].name, cs[i].in)

(***************************************************************************)
(* C4: every identifier in any owner's Owner Index list is a key of the    *)
(* Room Store, so get_rooms_registered_by_owner never aborts with          *)
(* ERR_NOT_FOUND_ROOM.                                                     *)
(***************************************************************************)
C4_IndexResolves ==
    /\ \A o \in DOMAIN rooms_per_owner :
           \A i \in 1..Len(rooms_per_owner[o]) :
               rooms_per_owner[o][i] \in DOMAIN rooms_by_id
    /\ \A o \in AccountIds : get_rooms_ret(o).ok
    /\ IsGet => last.ret_ok

\* A listing of an owner with several registrations has been returned.
C4_Witness ==
    /\ IsGet
    /\ last.ret_ok
    /\ Len(last.ret_rooms) >= 2
    /\ Len(last.ret_rooms) = Len(rooms_per_owner[last.owner_id])

(***************************************************************************)
(* C5: right after owner O registers a name N for the second time, the     *)
(* Room Store holds one record under the identifier of (O, N), with the    *)
(* newest field values (the store has no more records than there are       *)
(* registered pairs), the Owner Index list of O holds that identifier      *)
(* twice, and the listing of O shows N at both positions, each with the    *)
(* newest image, beds, description, location and price.                    *)
(***************************************************************************)
C5_ReRegistrationDuplicates ==
    (IsAdd /\ Cardinality(Registrations(last.owner_id, last.name)) = 2) =>
        LET o == last.owner_id
            n == last.name
            id == format(o, n)
            rooms == rooms_per_owner[o]
            pos == {i \in 1..Len(rooms) : rooms[i] = id}
            listing == get_rooms_ret(o)
            pairs == {<<calls[i].owner_id, calls[i].name>> : i \in 1..Len(calls)}
        IN  /\ id \in DOMAIN rooms_by_id
            /\ rooms_by_id[id] = new_room(o, n, last.in)
            /\ Cardinality(DOMAIN rooms_by_id) <= Cardinality(pairs)
            /\ Cardinality(pos) = 2
            /\ listing.ok
            /\ Len(listing.rooms) = Len(rooms)
            /\ \A i \in pos : listing.rooms[i] = Projection(n, last.in)

\* The second registration of a pair carries other field values than the first.
C5_Witness ==
    /\ IsAdd
    /\ Cardinality(Registrations(last.owner_id, last.name)) = 2
    /\ \E i \in Registrations(last.owner_id, last.name) : calls[i].in # last.in
    /\ Len(get_rooms_ret(last.owner_id).rooms) >= 2

(***************************************************************************)
(* C6: two different (owner, name) pairs never derive the same room        *)
(* identifier, so every registered pair keeps a Room Store record of its   *)
(* own, with its own owner and name.                                       *)
(***************************************************************************)
C6_IdentifierUniquePerPair ==
    \A i, j \in 1..Len(calls) :
        (calls[i].owner_id # calls[j].owner_id \/ calls[i].name # calls[j].name) =>
            /\ format(calls[i].owner_id, calls[i].name)
                   # format(calls[j].owner_id, calls[j].name)
            /\ rooms_by_id[format(calls[i].owner_id, calls[i].name)].owner_id
                   = calls[i].owner_id
            /\ rooms_by_id[format(calls[i].owner_id, calls[i].name)].name
                   = calls[i].name

(***************************************************************************)
(* C7: when two different owners O1 and O2 have both registered the same   *)
(* name N, their identifiers differ and each has a Room Store record; in   *)
(* the scenario where N is the only name registered, each record holds     *)
(* its owner's own latest values and each owner's listing shows exactly    *)
(* these for N.                                                            *)
(***************************************************************************)
C7_SameNameDifferentOwners ==
    \A o1, o2 \in AccountIds, n \in Names :
        (o1 # o2 /\ Registered(o1, n) /\ Registered(o2, n)) =>
            /\ format(o1, n) # format(o2, n)
            /\ format(o1, n) \in DOMAIN rooms_by_id
            /\ format(o2, n) \in DOMAIN rooms_by_id
            /\ (\A i \in 1..Len(calls) : calls[i].name = n) =>
                   LET listing == get_rooms_ret(o1) IN
                   /\ rooms_by_id[format(o1, n)] = new_room(o1, n, LatestInput(o1, n))
                   /\ listing.ok
                   /\ Len(listing.rooms) = Cardinality(Registrations(o1, n))
                   /\ \A i \in 1..Len(listing.rooms) :
                          listing.rooms[i] = Projection(n, LatestInput(o1, n))

\* Two owners registered the same name with different field values, and one
\* of the listings has been returned.
C7_Witness ==
    /\ IsGet
    /\ Len(calls) = 2
    /\ calls[1].owner_id # calls[2].owner_id
    /\ calls[1].name = calls[2].name
    /\ calls[1].in # calls[2].in
    /\ last.owner_id = calls[1].owner_id
    /\ last.ret_rooms = <<Projection(calls[1].name, calls[1].in)>>

(***************************************************************************)
(* C8: a call of exists or of get_rooms_registered_by_owner leaves the     *)
(* Room Store and the Owner Index unchanged, also for an owner without an  *)
(* Owner Index entry; a step that changes either store is a call of        *)
(* add_room_to_owner.                                                      *)
(***************************************************************************)
C8_ReadOnly ==
    [][ /\ (last'.op \in {"exists", "get_rooms_registered_by_owner"}) =>
               /\ rooms_by_id' = rooms_by_id
               /\ rooms_per_owner' = rooms_per_owner
        /\ (rooms_by_id' # rooms_by_id \/ rooms_per_owner' # rooms_per_owner) =>
               last'.op = "add_room_to_owner" ]_vars

\* The listing of an owner without an Owner Index entry was asked for while
\* the stores hold another owner's rooms.
C8_Witness ==
    /\ IsGet
    /\ last.owner_id \notin DOMAIN rooms_per_owner
    /\ DOMAIN rooms_per_owner # {}
    /\ DOMAIN rooms_by_id # {}
    /\ last.ret_ok /\ last.ret_rooms = <<>>

(***************************************************************************)
(* C9: every Room Store record has status Available and an empty booking   *)
(* map, so every entry of every listing has status Available.              *)
(***************************************************************************)
C9_AlwaysAvailable ==
    /\ \A id \in DOMAIN rooms_by_id :
           /\ rooms_by_id[id].status = Available
           /\ DOMAIN rooms_by_id[id].booked_info = {}
    /\ \A o \in AccountIds :
           \A i \in 1..Len(get_rooms_ret(o).rooms) :
               get_rooms_ret(o).rooms[i].status = Available
    /\ IsGet => \A i \in 1..Len(last.ret_rooms) : last.ret_rooms[i].status = Available

\* A non-empty listing has been returned.
C9_Witness ==
    /\ IsGet
    /\ Len(last.ret_rooms) >= 2
    /\ Cardinality(DOMAIN rooms_by_id) >= 2

(***************************************************************************)
(* C10: a registration signed by owner O leaves the listing of every       *)
(* other owner P unchanged.                                                *)
(***************************************************************************)
C10_OwnerIsolation ==
    [][ \A p \in AccountIds :
            (last'.op = "add_room_to_owner" /\ calls' # calls /\ last'.owner_id # p) =>
                get_rooms_ret(p)' = get_rooms_ret(p) ]_vars

====
